---- MODULE Spec2Model ----
(***************************************************************************)
(* Quota resolvers of the management API (GetKiroQuota in its two         *)
(* variants, GetCopilotQuota) and the usage adapters they drive.           *)
(* One resolution is followed from the inbound request to the response     *)
(* written with c.JSON.  Outbound calls are the invocations of client.Do.  *)
(***************************************************************************)
EXTENDS Integers, Sequences, FiniteSets, TLC

\* ------------------------------------------------------------------ bounds
MaxProfiles == 2      \* longest profile list a ListProfiles answer carries
MaxBreakdown == 2     \* longest usageBreakdownList a GetUsageLimits answer carries
TickStep == 10        \* clock granularity while a call is in flight
MaxConfigKeys == 3    \* most keys a keyed configuration map holds
MaxReads == 2         \* registry reads and lookups followed in one behaviour
MaxGenerated == 3     \* longest model list the generator is run on

\* ------------------------------------------------------- program constants
ctxTimeout == 30               \* context.WithTimeout(c.Request.Context(), 30*time.Second)
clientTimeoutLong == 2 * 30
clientTimeout == 30            \* http.Client{Timeout: 30 * time.Second}
StatusOK == 200
StatusBadRequest == 400
StatusNotFound == 404
StatusInternalServerError == 500

targetGetUsage == "AmazonCodeWhispererService.GetUsageLimits"
targetListProfiles == "AmazonCodeWhispererService.ListProfiles"
copilotUserEndpoint == "/copilot_internal/user"

\* ------------------------------------------------- loosely typed metadata
\* A value of the map[string]interface{} held by a credential record.
Absent == [t |-> "absent"]
NonString == [t |-> "number"]
Str(s) == [t |-> "string", s |-> s]

\* v.(string): the value and whether the type assertion succeeded.
AssertString(v) == IF v.t = "string" THEN [s |-> v.s, ok |-> TRUE] ELSE [s |-> "", ok |-> FALSE]

TokenValues == {Absent, NonString, Str(""), Str("abc")}
ArnValues == {Absent, NonString, Str(""), Str("arn-0")}
CamelTokenValues == {Absent, NonString, Str("xyz")}
CamelArnValues == {Absent, Str("arn-9")}

\* auth.Metadata: the keys the handlers read.
Metadatas ==
  [access_token : TokenValues, profile_arn : ArnValues,
   accessToken : CamelTokenValues, profileArn : CamelArnValues]

NilMetadata ==
  [access_token |-> Absent, profile_arn |-> Absent,
   accessToken |-> Absent, profileArn |-> Absent]

\* the provider type recorded in a credential record
Providers == {"kiro", "github-copilot", "codex"}

Nil == [nil |-> TRUE]
AuthRecords ==
  {[nil |-> FALSE, Provider |-> p, Metadata |-> m] : p \in Providers, m \in Metadatas}

\* h.authManager.GetByID(authID) answers (auth, ok).
StoreAnswers ==
  {[ok |-> FALSE, auth |-> Nil], [ok |-> TRUE, auth |-> Nil]}
    \cup {[ok |-> o, auth |-> a] : o \in {TRUE}, a \in AuthRecords}
    \cup {[ok |-> FALSE,
           auth |-> [nil |-> FALSE, Provider |-> "kiro", Metadata |-> NilMetadata]]}

Handlers == {"kiro", "kiro2", "copilot"}
AuthIDs == {"", "acct-1"}

\* --------------------------------------------------------- provider bodies
RECURSIVE SeqsUpTo(_, _)
SeqsUpTo(S, n) ==
  IF n = 0 THEN {<<>>}
  ELSE LET shorter == SeqsUpTo(S, n - 1)
       IN shorter \cup {Append(s, x) : s \in {q \in shorter : Len(q) = n - 1}, x \in S}

ProfileArns == {"", "arn-1", "arn-2"}
\* amounts in tenths of a unit: 125 is 12.5
BreakdownEntries ==
  {[CurrentUsageWithPrecision |-> 125, UsageLimitWithPrecision |-> 500],
   [CurrentUsageWithPrecision |-> -10, UsageLimitWithPrecision |-> 0]}

Malformed == [json |-> FALSE, text |-> "rate limited"]
ProfilesBodies ==
  {[json |-> TRUE, Profiles |-> p, UsageBreakdownList |-> <<>>, SubscriptionTitle |-> ""] :
     p \in SeqsUpTo(ProfileArns, MaxProfiles)}
UsageBodies ==
  {[json |-> TRUE, Profiles |-> <<>>, UsageBreakdownList |-> b, SubscriptionTitle |-> "Pro"] :
     b \in SeqsUpTo(BreakdownEntries, MaxBreakdown)}

\* What one client.Do / io.ReadAll pair can come back with.
NetErr(cause) == [kind |-> "neterr", cause |-> cause]
ReadErr == [kind |-> "readerr"]
Resp(status, body) == [kind |-> "resp", status |-> status, body |-> body]

RejectedStatuses == {429}   \* a non-200 status the provider answers with

Answers(bodies) ==
  {Resp(StatusOK, b) : b \in bodies \cup {Malformed}}
    \cup {Resp(s, b) : s \in RejectedStatuses, b \in bodies \cup {Malformed}}
    \cup {ReadErr, NetErr("network")}

\* --------------------------------------------------------------- adapters
NoErr == [op |-> "nil"]
Errorf(op) == [op |-> op]
ApiErrorf(op, status, body) == [op |-> op, status |-> status, body |-> body]

makeKiroRequestOneError(o) ==
  IF o.kind = "neterr" THEN [body |-> Malformed, err |-> Errorf("request failed")]
  ELSE IF o.kind = "readerr" THEN [body |-> Malformed, err |-> Errorf("failed to read response")]
  ELSE IF o.status # StatusOK THEN [body |-> Malformed, err |-> Errorf("request failed")]
  ELSE [body |-> o.body, err |-> NoErr]

\* makeKiroRequest: the body, or the error of the first failing step.
makeKiroRequest(o) ==
  IF o.kind = "neterr" THEN [body |-> Malformed, err |-> Errorf("request failed")]
  ELSE IF o.kind = "readerr" THEN [body |-> Malformed, err |-> Errorf("failed to read response")]
  ELSE IF o.status # StatusOK
    THEN [body |-> Malformed, err |-> ApiErrorf("API error", o.status, o.body)]
  ELSE [body |-> o.body, err |-> NoErr]

listProfiles(o) ==
  LET r == makeKiroRequest(o)
  IN IF r.err # NoErr THEN [arns |-> <<>>, err |-> r.err]
     ELSE IF ~r.body.json
       THEN [arns |-> <<>>, err |-> Errorf("failed to parse profiles response")]
     ELSE [arns |-> r.body.Profiles, err |-> NoErr]

NoUsage == [SubscriptionTitle |-> "", UsageBreakdownList |-> <<>>]

getUsageLimitsLenient(o) ==
  LET r == makeKiroRequest(o)
  IN IF r.err # NoErr THEN [usage |-> NoUsage, err |-> r.err]
     ELSE IF ~r.body.json THEN [usage |-> NoUsage, err |-> NoErr]
     ELSE [usage |-> [SubscriptionTitle |-> r.body.SubscriptionTitle,
                      UsageBreakdownList |-> r.body.UsageBreakdownList],
           err |-> NoErr]

getUsageLimits(o) ==
  LET r == makeKiroRequest(o)
  IN IF r.err # NoErr THEN [usage |-> NoUsage, err |-> r.err]
     ELSE IF ~r.body.json
       THEN [usage |-> NoUsage, err |-> Errorf("failed to parse usage response")]
     ELSE [usage |-> [SubscriptionTitle |-> r.body.SubscriptionTitle,
                      UsageBreakdownList |-> r.body.UsageBreakdownList],
           err |-> NoErr]

\* The payload getUsageLimits marshals: profileArn only when non-empty.
UsagePayload(arn) ==
  IF arn # "" THEN {"origin", "resourceType", "profileArn"} ELSE {"origin", "resourceType"}

\* CopilotUsageResponse bodies: the plan and the premium_interactions detail.
CopilotBodies ==
  {[json |-> TRUE, CopilotPlan |-> "individual",
    QuotaSnapshots |-> [PremiumInteractions |-> [Entitlement |-> 300, Remaining |-> r]]] :
     r \in {0, 120}}
NoCopilotUsage == [CopilotPlan |-> "", QuotaSnapshots |-> <<>>]

fetchCopilotUsageAnyStatus(o) ==
  IF o.kind = "neterr" THEN [usage |-> NoCopilotUsage, err |-> Errorf("request failed")]
  ELSE IF o.kind = "readerr"
    THEN [usage |-> NoCopilotUsage, err |-> Errorf("failed to read response")]
  ELSE IF ~o.body.json
    THEN [usage |-> NoCopilotUsage, err |-> Errorf("failed to parse response")]
  ELSE [usage |-> [CopilotPlan |-> o.body.CopilotPlan, QuotaSnapshots |-> o.body.QuotaSnapshots],
        err |-> NoErr]

fetchCopilotUsage(o) ==
  IF o.kind = "neterr" THEN [usage |-> NoCopilotUsage, err |-> Errorf("request failed")]
  ELSE IF o.kind = "readerr"
    THEN [usage |-> NoCopilotUsage, err |-> Errorf("failed to read response")]
  ELSE IF o.status # StatusOK
    THEN [usage |-> NoCopilotUsage, err |-> ApiErrorf("API returned status", o.status, o.body)]
  ELSE IF ~o.body.json
    THEN [usage |-> NoCopilotUsage, err |-> Errorf("failed to parse response")]
  ELSE [usage |-> [CopilotPlan |-> o.body.CopilotPlan, QuotaSnapshots |-> o.body.QuotaSnapshots],
        err |-> NoErr]

\* -------------------------------------------------------------- responses
OkJSON(body) == [code |-> StatusOK, error |-> "", detail |-> NoErr, body |-> body]
ErrorJSON(code, msg) == [code |-> code, error |-> msg, detail |-> NoErr, body |-> NoUsage]
FetchFailedJSON(err) ==
  [code |-> StatusInternalServerError, error |-> "failed to fetch usage", detail |-> err,
   body |-> NoUsage]
NoResponse == [code |-> 0, error |-> "", detail |-> NoErr, body |-> NoUsage]

KiroResponseLast(usage) ==
  LET n == Len(usage.UsageBreakdownList)
  IN [subscription_title |-> usage.SubscriptionTitle,
      credit_usage |->
        IF n > 0 THEN usage.UsageBreakdownList[n].CurrentUsageWithPrecision ELSE 0,
      monthly_credit_limit |->
        IF n > 0 THEN usage.UsageBreakdownList[n].UsageLimitWithPrecision ELSE 0,
      context_usage_percent |-> 0,
      monthly_context_limit |-> 1000]

\* response map of GetKiroQuota: zero unless a first breakdown entry exists.
KiroResponse(usage) ==
  [subscription_title |-> usage.SubscriptionTitle,
   credit_usage |->
     IF Len(usage.UsageBreakdownList) > 0
       THEN usage.UsageBreakdownList[1].CurrentUsageWithPrecision ELSE 0,
   monthly_credit_limit |->
     IF Len(usage.UsageBreakdownList) > 0
       THEN usage.UsageBreakdownList[1].UsageLimitWithPrecision ELSE 0,
   context_usage_percent |-> 0,
   monthly_context_limit |-> 1000]

\* ------------------------------------------------------ capability registry
\* Channel keys and model identifiers are sequences of one-character strings.
UpperLetters ==
  <<"A", "B", "C", "D", "E", "F", "G", "H", "I", "J", "K", "L", "M",
    "N", "O", "P", "Q", "R", "S", "T", "U", "V", "W", "X", "Y", "Z">>
LowerLetters ==
  <<"a", "b", "c", "d", "e", "f", "g", "h", "i", "j", "k", "l", "m",
    "n", "o", "p", "q", "r", "s", "t", "u", "v", "w", "x", "y", "z">>
\* the other characters in use, in byte order, before and after the letters
LowChars == <<"\t", "\n", "\r", " ", "-", "0", "1", "2", "3", "4", "5", "6", "7", "8", "9">>
ByteOrder == LowChars \o UpperLetters \o LowerLetters
WhiteSpace == {"\t", "\n", "\r", " "}

Ord(c) == CHOOSE i \in 1..Len(ByteOrder) : ByteOrder[i] = c

ToLowerChar(c) ==
  IF \E i \in 1..Len(UpperLetters) : UpperLetters[i] = c
    THEN LowerLetters[CHOOSE i \in 1..Len(UpperLetters) : UpperLetters[i] = c]
    ELSE c
ToUpperChar(c) ==
  IF \E i \in 1..Len(LowerLetters) : LowerLetters[i] = c
    THEN UpperLetters[CHOOSE i \in 1..Len(LowerLetters) : LowerLetters[i] = c]
    ELSE c

\* strings.ToLower
ToLower(str) == [i \in 1..Len(str) |-> ToLowerChar(str[i])]
ToUpper(str) == [i \in 1..Len(str) |-> ToUpperChar(str[i])]

\* strings.TrimSpace
RECURSIVE TrimLeft(_)
TrimLeft(str) ==
  IF str # <<>> /\ Head(str) \in WhiteSpace THEN TrimLeft(Tail(str)) ELSE str
RECURSIVE TrimRight(_)
TrimRight(str) ==
  IF str # <<>> /\ str[Len(str)] \in WhiteSpace
    THEN TrimRight(SubSeq(str, 1, Len(str) - 1)) ELSE str
TrimSpace(str) == TrimRight(TrimLeft(str))

\* a < b on Go strings: byte-wise
RECURSIVE StrLess(_, _)
StrLess(a, b) ==
  IF b = <<>> THEN FALSE
  ELSE IF a = <<>> THEN TRUE
  ELSE IF Head(a) # Head(b) THEN Ord(Head(a)) < Ord(Head(b))
  ELSE StrLess(Tail(a), Tail(b))

\* the channel names of the switch
claude == <<"c", "l", "a", "u", "d", "e">>
gemini == <<"g", "e", "m", "i", "n", "i">>
vertex == <<"v", "e", "r", "t", "e", "x">>
geminiCli == <<"g", "e", "m", "i", "n", "i", "-", "c", "l", "i">>
aistudio == <<"a", "i", "s", "t", "u", "d", "i", "o">>
codex == <<"c", "o", "d", "e", "x">>
qwen == <<"q", "w", "e", "n">>
iflow == <<"i", "f", "l", "o", "w">>
antigravity == <<"a", "n", "t", "i", "g", "r", "a", "v", "i", "t", "y">>

\* *ThinkingSupport: nil, or the struct with its budget range and its levels
NoThinking == [nil |-> TRUE]
ThinkingSupport(min, max, zeroAllowed, dynamicAllowed, levels) ==
  [nil |-> FALSE, Min |-> min, Max |-> max, ZeroAllowed |-> zeroAllowed,
   DynamicAllowed |-> dynamicAllowed, Levels |-> levels]
BudgetThinking(min, max) == ThinkingSupport(min, max, FALSE, FALSE, <<>>)
LevelThinking(levels) == ThinkingSupport(0, 0, FALSE, FALSE, levels)

\* *ModelInfo, with the fields the registry sets
ModelInfo(id, owner, type, thinking, maxTokens) ==
  [ID |-> id, Object |-> "model", OwnedBy |-> owner, Type |-> type,
   Thinking |-> thinking, MaxCompletionTokens |-> maxTokens]

\* the array-based tables of the channels of the switch
GetClaudeModels ==
  <<ModelInfo(<<"c", "1">>, "anthropic", "claude", BudgetThinking(1024, 32000), 64000),
    ModelInfo(<<"a">>, "anthropic", "claude", NoThinking, 8192)>>
GetGeminiModels == <<ModelInfo(<<"g", "1">>, "google", "gemini", NoThinking, 65536)>>
GetGeminiVertexModels == <<ModelInfo(<<"g", "1">>, "google", "vertex", NoThinking, 65536)>>
GetGeminiCLIModels == <<ModelInfo(<<"g", "2">>, "google", "gemini-cli", NoThinking, 65536)>>
GetAIStudioModels == <<ModelInfo(<<"g", "3">>, "google", "aistudio", NoThinking, 65536)>>
GetOpenAIModels == <<ModelInfo(<<"o", "1">>, "openai", "openai", NoThinking, 32768)>>
GetQwenModels == <<ModelInfo(<<"q", "1">>, "qwen", "qwen", NoThinking, 32768)>>
GetIFlowModels == <<ModelInfo(<<"i", "1">>, "iflow", "iflow", NoThinking, 32768)>>

\* the table of GitHub Copilot, entry by entry
GetGitHubCopilotModels ==
  <<ModelInfo(<<"c", "l", "a", "u", "d", "e", "-", "h", "a", "i", "k", "u", "-", "4", ".", "5">>, "github-copilot", "github-copilot",
              ThinkingSupport(1024, 32000, FALSE, FALSE, <<>>), 16000),
    ModelInfo(<<"c", "l", "a", "u", "d", "e", "-", "o", "p", "u", "s", "-", "4", ".", "5">>, "github-copilot", "github-copilot",
              ThinkingSupport(1024, 32000, FALSE, FALSE, <<>>), 16000),
    ModelInfo(<<"c", "l", "a", "u", "d", "e", "-", "s", "o", "n", "n", "e", "t", "-", "4">>, "github-copilot", "github-copilot",
              ThinkingSupport(1024, 32000, FALSE, FALSE, <<>>), 16000),
    ModelInfo(<<"c", "l", "a", "u", "d", "e", "-", "s", "o", "n", "n", "e", "t", "-", "4", ".", "5">>, "github-copilot", "github-copilot",
              ThinkingSupport(1024, 32000, FALSE, FALSE, <<>>), 16000),
    ModelInfo(<<"g", "e", "m", "i", "n", "i", "-", "2", ".", "5", "-", "p", "r", "o">>, "github-copilot", "github-copilot",
              ThinkingSupport(128, 32768, FALSE, FALSE, <<>>), 64000),
    ModelInfo(<<"g", "e", "m", "i", "n", "i", "-", "3", "-", "f", "l", "a", "s", "h", "-", "p", "r", "e", "v", "i", "e", "w">>, "github-copilot", "github-copilot",
              ThinkingSupport(256, 32000, FALSE, FALSE, <<>>), 64000),
    ModelInfo(<<"g", "e", "m", "i", "n", "i", "-", "3", "-", "p", "r", "o", "-", "p", "r", "e", "v", "i", "e", "w">>, "github-copilot", "github-copilot",
              ThinkingSupport(258, 32000, FALSE, FALSE, <<>>), 64000),
    ModelInfo(<<"g", "p", "t", "-", "3", ".", "5", "-", "t", "u", "r", "b", "o">>, "github-copilot", "github-copilot",
              LevelThinking(<<"minimal", "low", "medium", "high">>), 4096),
    ModelInfo(<<"g", "p", "t", "-", "3", ".", "5", "-", "t", "u", "r", "b", "o", "-", "0", "6", "1", "3">>, "github-copilot", "github-copilot",
              LevelThinking(<<"minimal", "low", "medium", "high">>), 4096),
    ModelInfo(<<"g", "p", "t", "-", "4">>, "github-copilot", "github-copilot",
              LevelThinking(<<"minimal", "low", "medium", "high">>), 4096),
    ModelInfo(<<"g", "p", "t", "-", "4">>, "github-copilot", "github-copilot",
              LevelThinking(<<"minimal", "low", "medium", "high">>), 4096),
    ModelInfo(<<"g", "p", "t", "-", "4", "-", "0", "1", "2", "5", "-", "p", "r", "e", "v", "i", "e", "w">>, "github-copilot", "github-copilot",
              LevelThinking(<<"minimal", "low", "medium", "high">>), 4096),
    ModelInfo(<<"g", "p", "t", "-", "4", "-", "0", "6", "1", "3">>, "github-copilot", "github-copilot",
              LevelThinking(<<"minimal", "low", "medium", "high">>), 4096),
    ModelInfo(<<"g", "p", "t", "-", "4", "-", "o", "-", "p", "r", "e", "v", "i", "e", "w">>, "github-copilot", "github-copilot",
              LevelThinking(<<"minimal", "low", "medium", "high">>), 4096),
    ModelInfo(<<"g", "p", "t", "-", "4", "-", "o", "-", "p", "r", "e", "v", "i", "e", "w">>, "github-copilot", "github-copilot",
              LevelThinking(<<"minimal", "low", "medium", "high">>), 4096),
    ModelInfo(<<"g", "p", "t", "-", "4", ".", "1">>, "github-copilot", "github-copilot",
              LevelThinking(<<"minimal", "low", "medium", "high">>), 16384),
    ModelInfo(<<"g", "p", "t", "-", "4", ".", "1", "-", "2", "0", "2", "5", "-", "0", "4", "-", "1", "4">>, "github-copilot", "github-copilot",
              LevelThinking(<<"minimal", "low", "medium", "high">>), 16384),
    ModelInfo(<<"g", "p", "t", "-", "4", "o">>, "github-copilot", "github-copilot",
              LevelThinking(<<"minimal", "low", "medium", "high">>), 4096),
    ModelInfo(<<"g", "p", "t", "-", "4", "o", "-", "2", "0", "2", "4", "-", "0", "5", "-", "1", "3">>, "github-copilot", "github-copilot",
              LevelThinking(<<"minimal", "low", "medium", "high">>), 4096),
    ModelInfo(<<"g", "p", "t", "-", "4", "o", "-", "2", "0", "2", "4", "-", "0", "8", "-", "0", "6">>, "github-copilot", "github-copilot",
              LevelThinking(<<"minimal", "low", "medium", "high">>), 16384),
    ModelInfo(<<"g", "p", "t", "-", "4", "o", "-", "2", "0", "2", "4", "-", "1", "1", "-", "2", "0">>, "github-copilot", "github-copilot",
              LevelThinking(<<"minimal", "low", "medium", "high">>), 16384),
    ModelInfo(<<"g", "p", "t", "-", "4", "o", "-", "m", "i", "n", "i">>, "github-copilot", "github-copilot",
              LevelThinking(<<"minimal", "low", "medium", "high">>), 4096),
    ModelInfo(<<"g", "p", "t", "-", "4", "o", "-", "m", "i", "n", "i", "-", "2", "0", "2", "4", "-", "0", "7", "-", "1", "8">>, "github-copilot", "github-copilot",
              LevelThinking(<<"minimal", "low", "medium", "high">>), 4096),
    ModelInfo(<<"g", "p", "t", "-", "5">>, "github-copilot", "github-copilot",
              LevelThinking(<<"minimal", "low", "medium", "high">>), 128000),
    ModelInfo(<<"g", "p", "t", "-", "5", "-", "c", "o", "d", "e", "x">>, "github-copilot", "github-copilot",
              LevelThinking(<<"minimal", "low", "medium", "high">>), 128000),
    ModelInfo(<<"g", "p", "t", "-", "5", "-", "m", "i", "n", "i">>, "github-copilot", "github-copilot",
              LevelThinking(<<"minimal", "low", "medium", "high">>), 64000),
    ModelInfo(<<"g", "p", "t", "-", "5", ".", "1">>, "github-copilot", "github-copilot",
              LevelThinking(<<"minimal", "low", "medium", "high">>), 64000),
    ModelInfo(<<"g", "p", "t", "-", "5", ".", "1", "-", "c", "o", "d", "e", "x">>, "github-copilot", "github-copilot",
              LevelThinking(<<"minimal", "low", "medium", "high">>), 128000),
    ModelInfo(<<"g", "p", "t", "-", "5", ".", "1", "-", "c", "o", "d", "e", "x", "-", "m", "a", "x">>, "github-copilot", "github-copilot",
              LevelThinking(<<"minimal", "low", "medium", "high">>), 128000),
    ModelInfo(<<"g", "p", "t", "-", "5", ".", "1", "-", "c", "o", "d", "e", "x", "-", "m", "i", "n", "i">>, "github-copilot", "github-copilot",
              LevelThinking(<<"minimal", "low", "medium", "high">>), 128000),
    ModelInfo(<<"g", "p", "t", "-", "5", ".", "2">>, "github-copilot", "github-copilot",
              LevelThinking(<<"minimal", "low", "medium", "high">>), 64000),
    ModelInfo(<<"g", "p", "t", "-", "5", ".", "2", "-", "c", "o", "d", "e", "x">>, "github-copilot", "github-copilot",
              LevelThinking(<<"minimal", "low", "medium", "high">>), 128000),
    ModelInfo(<<"g", "r", "o", "k", "-", "c", "o", "d", "e", "-", "f", "a", "s", "t", "-", "1">>, "github-copilot", "github-copilot",
              NoThinking, 64000),
    ModelInfo(<<"t", "e", "x", "t", "-", "e", "m", "b", "e", "d", "d", "i", "n", "g", "-", "3", "-", "s", "m", "a", "l", "l">>, "github-copilot", "github-copilot",
              NoThinking, 16384),
    ModelInfo(<<"t", "e", "x", "t", "-", "e", "m", "b", "e", "d", "d", "i", "n", "g", "-", "3", "-", "s", "m", "a", "l", "l", "-", "i", "n", "f", "e", "r", "e", "n", "c", "e">>, "github-copilot", "github-copilot",
              NoThinking, 16384),
    ModelInfo(<<"t", "e", "x", "t", "-", "e", "m", "b", "e", "d", "d", "i", "n", "g", "-", "a", "d", "a", "-", "0", "0", "2">>, "github-copilot", "github-copilot",
              NoThinking, 16384)>>
\* the table of Kiro, entry by entry
GetKiroModels ==
  <<ModelInfo(<<"k", "i", "r", "o", "-", "a", "u", "t", "o">>, "aws", "kiro",
              ThinkingSupport(1024, 32000, TRUE, TRUE, <<>>), 64000),
    ModelInfo(<<"k", "i", "r", "o", "-", "c", "l", "a", "u", "d", "e", "-", "o", "p", "u", "s", "-", "4", "-", "5">>, "aws", "kiro",
              ThinkingSupport(1024, 32000, TRUE, TRUE, <<>>), 64000),
    ModelInfo(<<"k", "i", "r", "o", "-", "c", "l", "a", "u", "d", "e", "-", "s", "o", "n", "n", "e", "t", "-", "4", "-", "5">>, "aws", "kiro",
              ThinkingSupport(1024, 32000, TRUE, TRUE, <<>>), 64000),
    ModelInfo(<<"k", "i", "r", "o", "-", "c", "l", "a", "u", "d", "e", "-", "s", "o", "n", "n", "e", "t", "-", "4">>, "aws", "kiro",
              ThinkingSupport(1024, 32000, TRUE, TRUE, <<>>), 64000),
    ModelInfo(<<"k", "i", "r", "o", "-", "c", "l", "a", "u", "d", "e", "-", "h", "a", "i", "k", "u", "-", "4", "-", "5">>, "aws", "kiro",
              ThinkingSupport(1024, 32000, TRUE, TRUE, <<>>), 64000),
    ModelInfo(<<"k", "i", "r", "o", "-", "c", "l", "a", "u", "d", "e", "-", "o", "p", "u", "s", "-", "4", "-", "5", "-", "a", "g", "e", "n", "t", "i", "c">>, "aws", "kiro",
              ThinkingSupport(1024, 32000, TRUE, TRUE, <<>>), 64000),
    ModelInfo(<<"k", "i", "r", "o", "-", "c", "l", "a", "u", "d", "e", "-", "s", "o", "n", "n", "e", "t", "-", "4", "-", "5", "-", "a", "g", "e", "n", "t", "i", "c">>, "aws", "kiro",
              ThinkingSupport(1024, 32000, TRUE, TRUE, <<>>), 64000),
    ModelInfo(<<"k", "i", "r", "o", "-", "c", "l", "a", "u", "d", "e", "-", "s", "o", "n", "n", "e", "t", "-", "4", "-", "a", "g", "e", "n", "t", "i", "c">>, "aws", "kiro",
              ThinkingSupport(1024, 32000, TRUE, TRUE, <<>>), 64000),
    ModelInfo(<<"k", "i", "r", "o", "-", "c", "l", "a", "u", "d", "e", "-", "h", "a", "i", "k", "u", "-", "4", "-", "5", "-", "a", "g", "e", "n", "t", "i", "c">>, "aws", "kiro",
              ThinkingSupport(1024, 32000, TRUE, TRUE, <<>>), 64000)>>
\* the table of Amazon Q, entry by entry
GetAmazonQModels ==
  <<ModelInfo(<<"a", "m", "a", "z", "o", "n", "q", "-", "a", "u", "t", "o">>, "aws", "kiro",
              NoThinking, 64000),
    ModelInfo(<<"a", "m", "a", "z", "o", "n", "q", "-", "c", "l", "a", "u", "d", "e", "-", "o", "p", "u", "s", "-", "4", ".", "5">>, "aws", "kiro",
              NoThinking, 64000),
    ModelInfo(<<"a", "m", "a", "z", "o", "n", "q", "-", "c", "l", "a", "u", "d", "e", "-", "s", "o", "n", "n", "e", "t", "-", "4", ".", "5">>, "aws", "kiro",
              NoThinking, 64000),
    ModelInfo(<<"a", "m", "a", "z", "o", "n", "q", "-", "c", "l", "a", "u", "d", "e", "-", "s", "o", "n", "n", "e", "t", "-", "4">>, "aws", "kiro",
              NoThinking, 64000),
    ModelInfo(<<"a", "m", "a", "z", "o", "n", "q", "-", "c", "l", "a", "u", "d", "e", "-", "h", "a", "i", "k", "u", "-", "4", ".", "5">>, "aws", "kiro",
              NoThinking, 64000)>>

\* the keyed configuration map: model identifier -> override entry
AntigravityIDs == {<<>>, <<"a">>, <<"A">>, <<"B">>}
NilEntry == [nil |-> TRUE]
AntigravityEntries ==
  {NilEntry,
   [nil |-> FALSE, Thinking |-> BudgetThinking(1024, 32768), MaxCompletionTokens |-> 65535]}
AntigravityConfigs ==
  UNION {[keys -> AntigravityEntries] :
           keys \in {k \in SUBSET AntigravityIDs : Cardinality(k) <= MaxConfigKeys}}

\* the orders in which `for modelID, entry := range cfg` can visit the keys
RECURSIVE Orders(_)
Orders(S) ==
  IF S = {} THEN {<<>>}
  ELSE UNION {{<<x>> \o rest : rest \in Orders(S \ {x})} : x \in S}

\* a result slice: nil, or the models in order
NilModels == [isNil |-> TRUE, models |-> <<>>]
Models(seq) == [isNil |-> FALSE, models |-> seq]

\* the less function handed to sort.Slice
LessRaw(a, b) == StrLess(a.ID, b.ID)
Less(a, b) == StrLess(ToLower(a.ID), ToLower(b.ID))

\* sort.Slice on a short slice: insertion sort, an element moves left while
\* it is less than its left neighbour
RECURSIVE Insert(_, _)
Insert(sorted, x) ==
  IF sorted # <<>> /\ Less(x, sorted[Len(sorted)])
    THEN Append(Insert(SubSeq(sorted, 1, Len(sorted) - 1), x), sorted[Len(sorted)])
    ELSE Append(sorted, x)
RECURSIVE SortSlice(_)
SortSlice(seq) ==
  IF seq = <<>> THEN <<>>
  ELSE Insert(SortSlice(SubSeq(seq, 1, Len(seq) - 1)), seq[Len(seq)])

\* if modelID == "" || entry == nil { continue }
Skipped(config, modelID) == modelID = <<>> \/ config[modelID].nil

\* the models appended in the range loop, in visiting order
RECURSIVE Appended(_, _)
Appended(config, order) ==
  IF order = <<>> THEN <<>>
  ELSE LET modelID == Head(order)
           rest == Appended(config, Tail(order))
       IN IF Skipped(config, modelID) THEN rest
          ELSE <<ModelInfo(modelID, "antigravity", "antigravity", config[modelID].Thinking,
                           config[modelID].MaxCompletionTokens)>> \o rest

\* case "antigravity"
AntigravityModels(config, order) ==
  IF Cardinality(DOMAIN config) = 0 THEN NilModels
  ELSE Models(SortSlice(Appended(config, order)))

\* default: return nil
DefaultModelsClaude == Models(GetClaudeModels)
DefaultModels == NilModels

GetStaticModelDefinitionsByChannel(channel, config, order) ==
  LET key == ToLower(TrimSpace(channel))
  IN CASE key = claude -> Models(GetClaudeModels)
       [] key = gemini -> Models(GetGeminiModels)
       [] key = vertex -> Models(GetGeminiVertexModels)
       [] key = geminiCli -> Models(GetGeminiCLIModels)
       [] key = aistudio -> Models(GetAIStudioModels)
       [] key = codex -> Models(GetOpenAIModels)
       [] key = qwen -> Models(GetQwenModels)
       [] key = iflow -> Models(GetIFlowModels)
       [] key = antigravity -> AntigravityModels(config, order)
       [] OTHER -> DefaultModels

\* a lookup result: nil, or the descriptor found
NilInfo == [nil |-> TRUE]
InfoOf(m) == [nil |-> FALSE, info |-> m]

\* allModels: the tables scanned, in scan order
allModelsReversed ==
  <<GetIFlowModels, GetQwenModels, GetOpenAIModels, GetAIStudioModels, GetGeminiCLIModels,
    GetGeminiVertexModels, GetGeminiModels, GetClaudeModels>>
allModels ==
  <<GetClaudeModels, GetGeminiModels, GetGeminiVertexModels, GetGeminiCLIModels,
    GetAIStudioModels, GetOpenAIModels, GetQwenModels, GetIFlowModels>>

\* for _, m := range models { if m != nil && m.ID == modelID { return m } }
RECURSIVE FirstMatch(_, _)
FirstMatch(models, modelID) ==
  IF models = <<>> THEN NilInfo
  ELSE IF Head(models).ID = modelID THEN InfoOf(Head(models))
  ELSE FirstMatch(Tail(models), modelID)

\* for _, models := range allModels
RECURSIVE ScanTables(_, _)
ScanTables(tables, modelID) ==
  IF tables = <<>> THEN NilInfo
  ELSE LET m == FirstMatch(Head(tables), modelID)
       IN IF ~m.nil THEN m ELSE ScanTables(Tail(tables), modelID)

\* if cfg := GetAntigravityModelConfig()[modelID]; cfg != nil
AntigravityFallback(config, modelID) ==
  IF modelID \in DOMAIN config /\ config[modelID] # NilEntry
    THEN InfoOf([ID |-> modelID, Object |-> "", OwnedBy |-> "", Type |-> "",
                 Thinking |-> config[modelID].Thinking,
                 MaxCompletionTokens |-> config[modelID].MaxCompletionTokens])
    ELSE NilInfo

\* if modelID == "" { return nil }
IsEmptyIDNever(modelID) == FALSE
IsEmptyID(modelID) == modelID = <<>>

LookupStaticModelInfoFallbackFirst(modelID, config) ==
  IF IsEmptyID(modelID) THEN NilInfo
  ELSE LET m == AntigravityFallback(config, modelID)
       IN IF ~m.nil THEN m ELSE ScanTables(allModels, modelID)
LookupStaticModelInfo(modelID, config) ==
  IF IsEmptyID(modelID) THEN NilInfo
  ELSE LET m == ScanTables(allModels, modelID)
       IN IF ~m.nil THEN m ELSE AntigravityFallback(config, modelID)

\* ---------------------------------------------------- the table generator
\* strings.HasPrefix
HasPrefix(str, prefix) ==
  Len(str) >= Len(prefix) /\ SubSeq(str, 1, Len(prefix)) = prefix

\* a CopilotModel as the provider lists it, with the fields the table uses
CopilotModel(id, minBudget, maxBudget, maxOutput) ==
  [ID |-> id, MinThinkingBudget |-> minBudget, MaxThinkingBudget |-> maxBudget,
   MaxOutputTokens |-> maxOutput]

GptLevels == <<"minimal", "low", "medium", "high">>
IsLevelModel(id) ==
  LET modelLower == ToLower(id)
  IN \/ HasPrefix(modelLower, <<"g", "p", "t", "-">>)
     \/ HasPrefix(modelLower, <<"o", "1">>)
     \/ HasPrefix(modelLower, <<"o", "3">>)

\* generateThinkingSupport: the ThinkingSupport literal it writes, nil for ""
generateThinkingSupportBoth(model) ==
  IF model.MaxThinkingBudget > 0 \/ IsLevelModel(model.ID)
    THEN ThinkingSupport(model.MinThinkingBudget, model.MaxThinkingBudget, FALSE, FALSE,
                         IF IsLevelModel(model.ID) THEN GptLevels ELSE <<>>)
    ELSE NoThinking
generateThinkingSupport(model) ==
  IF model.MaxThinkingBudget > 0
    THEN ThinkingSupport(model.MinThinkingBudget, model.MaxThinkingBudget, FALSE, FALSE, <<>>)
  ELSE IF IsLevelModel(model.ID) THEN LevelThinking(GptLevels)
  ELSE NoThinking

\* sort.Slice(models, models[i].ID < models[j].ID) on a short slice
RECURSIVE InsertByID(_, _)
InsertByID(sorted, x) ==
  IF sorted # <<>> /\ StrLess(x.ID, sorted[Len(sorted)].ID)
    THEN Append(InsertByID(SubSeq(sorted, 1, Len(sorted) - 1), x), sorted[Len(sorted)])
    ELSE Append(sorted, x)
RECURSIVE SortByID(_)
SortByID(seq) ==
  IF seq = <<>> THEN <<>>
  ELSE InsertByID(SortByID(SubSeq(seq, 1, Len(seq) - 1)), seq[Len(seq)])

defaultMaxOutputTokens == 16384

\* the entry written for one provider model
GeneratedEntry(m) ==
  ModelInfo(m.ID, "github-copilot", "github-copilot", generateThinkingSupport(m),
            IF m.MaxOutputTokens = 0 THEN defaultMaxOutputTokens ELSE m.MaxOutputTokens)

\* the entries written in the loop, models with an empty ID skipped
RECURSIVE GeneratedEntries(_)
GeneratedEntries(models) ==
  IF models = <<>> THEN <<>>
  ELSE IF Head(models).ID = <<>> THEN GeneratedEntries(Tail(models))
  ELSE <<GeneratedEntry(Head(models))>> \o GeneratedEntries(Tail(models))

\* generateGoCode: the table the generated GetGitHubCopilotModels returns
generateGoCode(models) == GeneratedEntries(SortByID(models))

\* what the provider's model list may hold
CopilotModelIDs == {<<>>, <<"g", "p", "t", "-", "4">>, <<"O", "1">>, <<"c">>}
CopilotModels ==
  {CopilotModel(id, b[1], b[2], 0) :
     id \in CopilotModelIDs, b \in {<<0, 0>>, <<1024, 32000>>}}

\* ------------------------------------------------------------------ state
VARIABLES
  handler,       \* which endpoint serves the request
  authID,        \* c.Query("auth_id")
  authManager,   \* "nil" or "set": h.authManager
  store,         \* what GetByID answers for authID
  pc,            \* position of the handler
  storeCalls,    \* number of GetByID calls made
  accessToken,   \* bearer token extracted from the metadata
  profileArn,    \* secondary identifier known so far
  ctxDeadline,   \* deadline of ctx, -1 while there is no ctx
  cancelled,     \* the inbound request's context has been cancelled
  cancelAt,      \* pc at which the cancellation happened
  now,           \* clock
  callStart,     \* time at which the call in flight started
  calls,         \* outbound calls issued so far, in order
  discOutcome,   \* what the ListProfiles call came back with
  fetchOutcome,  \* what the usage call came back with
  response,      \* the response written with c.JSON
  cfg,           \* what GetAntigravityModelConfig() returns
  regPrev,       \* the registry read before the last one
  regLast,       \* the last registry read: its argument and what it returned
  lookLast,      \* the last lookup by identifier: its argument and what it returned
  table,         \* the last table constructed: by a table function or the generator
  parked         \* the local variables of a second request, while it is not running

vars ==
  <<handler, authID, authManager, store, pc, storeCalls, accessToken, profileArn,
    ctxDeadline, cancelled, cancelAt, now, callStart, calls, discOutcome,
    fetchOutcome, response, cfg, regPrev, regLast, lookLast, table, parked>>

registry == <<cfg, regPrev, regLast, lookLast, table>>
\* what a step of the request that is running leaves alone
outside == <<registry, parked>>

inputs == <<handler, authID, authManager, store>>
NoOutcome == [kind |-> "none"]

\* no registry read has been made
NoRead == [read |-> FALSE, base |-> <<>>, channel |-> <<>>, result |-> NilModels]
EmptyConfig == [k \in {} |-> NilEntry]
\* the local variables of a handler that has not started
StartOf(h, id) ==
  [handler |-> h, authID |-> id, pc |-> "start", storeCalls |-> 0, accessToken |-> "",
   profileArn |-> "", ctxDeadline |-> -1, cancelled |-> FALSE, cancelAt |-> "none",
   now |-> 0, callStart |-> 0, calls |-> <<>>, discOutcome |-> NoOutcome,
   fetchOutcome |-> NoOutcome, response |-> NoResponse]
NoRequest == StartOf("kiro", "")
\* no lookup has been made
NoLookup == [read |-> FALSE, id |-> <<>>, result |-> NilInfo]
\* no table has been constructed
NoTable == [built |-> FALSE, by |-> "", input |-> <<>>, models |-> <<>>]

Init ==
  /\ parked = NoRequest
  /\ cfg = EmptyConfig
  /\ regPrev = NoRead
  /\ regLast = NoRead
  /\ lookLast = NoLookup
  /\ table = NoTable
  /\ handler \in Handlers
  /\ authID \in AuthIDs
  /\ authManager \in {"nil", "set"}
  /\ store \in StoreAnswers
  /\ pc = "start"
  /\ storeCalls = 0
  /\ accessToken = ""
  /\ profileArn = ""
  /\ ctxDeadline = -1
  /\ cancelled = FALSE
  /\ cancelAt = "none"
  /\ now = 0
  /\ callStart = 0
  /\ calls = <<>>
  /\ discOutcome = NoOutcome
  /\ fetchOutcome = NoOutcome
  /\ response = NoResponse

Min(a, b) == IF a < b THEN a ELSE b

\* c.JSON(code, ...) followed by return
ReplyNoReturn(r) ==
  /\ response' = r
  /\ UNCHANGED pc

Reply(r) ==
  /\ response' = r
  /\ pc' = "done"

\* ------------------------------------------------- steps of the resolvers
\* if authID == ""
AuthIDMissingNever(id) == FALSE
AuthIDMissing(id) == id = ""

\* authID := c.Query("auth_id"); if authID == "" { 400 }
CheckAuthID ==
  /\ pc = "start"
  /\ IF AuthIDMissing(authID)
       THEN Reply(ErrorJSON(StatusBadRequest, "auth_id is required"))
       ELSE /\ pc' = "manager"
            /\ UNCHANGED response
  /\ UNCHANGED <<outside, inputs, storeCalls, accessToken, profileArn, ctxDeadline, cancelled,
                 cancelAt, now, callStart, calls, discOutcome, fetchOutcome>>

\* if h.authManager == nil { 500 }
CheckAuthManager ==
  /\ pc = "manager"
  /\ IF authManager = "nil"
       THEN Reply(ErrorJSON(StatusInternalServerError, "auth manager not available"))
       ELSE /\ pc' = "lookup"
            /\ UNCHANGED response
  /\ UNCHANGED <<outside, inputs, storeCalls, accessToken, profileArn, ctxDeadline, cancelled,
                 cancelAt, now, callStart, calls, discOutcome, fetchOutcome>>

\* if !ok || auth == nil
AuthNotFoundNilOnly(ans) == ans.auth.nil
AuthNotFound(ans) == ~ans.ok \/ ans.auth.nil

\* auth, ok := h.authManager.GetByID(authID); if !ok || auth == nil { 404 }
LookupAuth ==
  /\ pc = "lookup"
  /\ storeCalls' = storeCalls + 1
  /\ IF AuthNotFound(store)
       THEN Reply(ErrorJSON(StatusNotFound, "auth not found"))
       ELSE /\ pc' = "extract"
            /\ UNCHANGED response
  /\ UNCHANGED <<outside, inputs, accessToken, profileArn, ctxDeadline, cancelled,
                 cancelAt, now, callStart, calls, discOutcome, fetchOutcome>>

\* GetKiroQuota: access_token, then profile_arn, then ctx with its deadline.
ExtractKiro ==
  /\ pc = "extract"
  /\ handler = "kiro"
  /\ LET t == AssertString(store.auth.Metadata.access_token)
         p == AssertString(store.auth.Metadata.profile_arn)
     IN IF t.s = ""
          THEN /\ Reply(ErrorJSON(StatusBadRequest, "access_token not found in auth data"))
               /\ UNCHANGED <<accessToken, profileArn, ctxDeadline>>
          ELSE /\ accessToken' = t.s
               /\ profileArn' = p.s
               /\ ctxDeadline' = now + ctxTimeout
               /\ pc' = "adapter"
               /\ UNCHANGED response
  /\ UNCHANGED <<outside, inputs, storeCalls, cancelled, cancelAt, now, callStart, calls,
                 discOutcome, fetchOutcome>>

\* json.Marshal(auth.Metadata) then json.Unmarshal into kiroauth.KiroTokenData:
\* the struct's fields are filled from the keys its tags name.
DecodeKiroTokenData(md) ==
  IF md.accessToken.t = "number" \/ md.profileArn.t = "number"
    THEN [err |-> TRUE, AccessToken |-> "", ProfileArn |-> ""]
    ELSE [err |-> FALSE,
          AccessToken |-> AssertString(md.accessToken).s,
          ProfileArn |-> AssertString(md.profileArn).s]

\* if tokenData.AccessToken == "" { if t, ok := ...(string); ok { use t } else { 400 } }
FallbackAccessToken(decoded, v) ==
  IF decoded # "" THEN [token |-> decoded, ok |-> TRUE]
  ELSE IF AssertString(v).ok THEN [token |-> AssertString(v).s, ok |-> TRUE]
  ELSE [token |-> "", ok |-> FALSE]

\* GetKiroQuota, the variant that goes through kiroauth.
ExtractKiro2 ==
  /\ pc = "extract"
  /\ handler = "kiro2"
  /\ LET td == DecodeKiroTokenData(store.auth.Metadata)
         fb == FallbackAccessToken(td.AccessToken, store.auth.Metadata.access_token)
     IN IF td.err
          THEN /\ Reply(ErrorJSON(StatusInternalServerError, "failed to unmarshal token data"))
               /\ UNCHANGED <<accessToken, profileArn, ctxDeadline>>
        ELSE IF ~fb.ok
          THEN /\ Reply(ErrorJSON(StatusBadRequest, "access_token not found in auth data"))
               /\ UNCHANGED <<accessToken, profileArn, ctxDeadline>>
        ELSE /\ accessToken' = fb.token
             /\ profileArn' = td.ProfileArn
             /\ ctxDeadline' = now + ctxTimeout
             /\ pc' = "fetchStart"
             /\ UNCHANGED response
  /\ UNCHANGED <<outside, inputs, storeCalls, cancelled, cancelAt, now, callStart, calls,
                 discOutcome, fetchOutcome>>

\* GetCopilotQuota: token from the metadata; no context is created.
ExtractCopilot ==
  /\ pc = "extract"
  /\ handler = "copilot"
  /\ LET t == AssertString(store.auth.Metadata.access_token)
     IN IF t.s = ""
          THEN /\ Reply(ErrorJSON(StatusBadRequest, "no access token found in auth"))
               /\ UNCHANGED accessToken
          ELSE /\ accessToken' = t.s
               /\ pc' = "fetchStart"
               /\ UNCHANGED response
  /\ UNCHANGED <<outside, inputs, storeCalls, profileArn, ctxDeadline, cancelled, cancelAt, now,
                 callStart, calls, discOutcome, fetchOutcome>>

\* --------------------------------------------------------- calls in flight
\* http.NewRequestWithContext(ctx, ...) against http.NewRequest(...)
RequestUsesCtx(h) == h \in {"kiro", "kiro2"}

CtxDone == ctxDeadline >= 0 /\ (cancelled \/ now >= ctxDeadline)

\* latest time at which the call in flight is still running
CallLimit ==
  IF RequestUsesCtx(handler)
    THEN Min(callStart + clientTimeout, ctxDeadline)
    ELSE callStart + clientTimeout

\* client.Do can only return an error: ctx is done or the client timed out
MustFail == (RequestUsesCtx(handler) /\ CtxDone) \/ now >= CallLimit

FailureCause ==
  IF RequestUsesCtx(handler) /\ ctxDeadline >= 0 /\ cancelled THEN "canceled" ELSE "timeout"

Outcomes(bodies) == IF MustFail THEN {NetErr(FailureCause)} ELSE Answers(bodies)

\* if profileArn == "" { listProfiles(...) }
NeedsDiscoveryAlways(arn) == TRUE
NeedsDiscovery(arn) == arn = ""

listProfilesStart ==
  /\ pc = "adapter"
  /\ NeedsDiscovery(profileArn)
  /\ calls' = Append(calls, [target |-> targetListProfiles, token |-> accessToken,
                             arn |-> "", payload |-> {}, ctx |-> TRUE, start |-> now])
  /\ callStart' = now
  /\ pc' = "discovery"
  /\ UNCHANGED <<outside, inputs, storeCalls, accessToken, profileArn, ctxDeadline, cancelled,
                 cancelAt, now, discOutcome, fetchOutcome, response>>

\* arns, err := listProfiles(...): warn on error, else take arns[0] if any
ResolvedArnLast(arn, r) ==
  IF r.err = NoErr /\ Len(r.arns) > 0 THEN r.arns[Len(r.arns)] ELSE arn
ResolvedArn(arn, r) == IF r.err = NoErr /\ Len(r.arns) > 0 THEN r.arns[1] ELSE arn

listProfilesReturnFatal ==
  /\ pc = "discovery"
  /\ \E o \in Outcomes(ProfilesBodies) :
       /\ discOutcome' = o
       /\ profileArn' = ResolvedArn(profileArn, listProfiles(o))
       /\ IF listProfiles(o).err # NoErr
            THEN Reply(FetchFailedJSON(listProfiles(o).err))
            ELSE pc' = "fetchStart" /\ UNCHANGED response
  /\ UNCHANGED <<outside, inputs, storeCalls, accessToken, ctxDeadline, cancelled, cancelAt, now,
                 callStart, calls, fetchOutcome>>

listProfilesReturn ==
  /\ pc = "discovery"
  /\ \E o \in Outcomes(ProfilesBodies) :
       /\ discOutcome' = o
       /\ profileArn' = ResolvedArn(profileArn, listProfiles(o))
  /\ pc' = "fetchStart"
  /\ UNCHANGED <<outside, inputs, storeCalls, accessToken, ctxDeadline, cancelled, cancelAt, now,
                 callStart, calls, fetchOutcome, response>>

getUsageLimitsStart ==
  /\ \/ pc = "fetchStart"
     \/ pc = "adapter" /\ ~NeedsDiscovery(profileArn)
  /\ handler = "kiro"
  /\ calls' = Append(calls, [target |-> targetGetUsage, token |-> accessToken,
                             arn |-> profileArn, payload |-> UsagePayload(profileArn),
                             ctx |-> TRUE, start |-> now])
  /\ callStart' = now
  /\ pc' = "fetch"
  /\ UNCHANGED <<outside, inputs, storeCalls, accessToken, profileArn, ctxDeadline, cancelled,
                 cancelAt, now, discOutcome, fetchOutcome, response>>

KiroReplyNeedsBreakdown(r) ==
  IF r.err # NoErr THEN FetchFailedJSON(r.err)
  ELSE IF Len(r.usage.UsageBreakdownList) = 0
    THEN FetchFailedJSON(Errorf("failed to parse usage response"))
  ELSE OkJSON(KiroResponse(r.usage))

\* usage, err := getUsageLimits(...): 500 on error, else the mapped response
KiroReply(r) == IF r.err # NoErr THEN FetchFailedJSON(r.err) ELSE OkJSON(KiroResponse(r.usage))

getUsageLimitsReturnRetry ==
  /\ pc = "fetch"
  /\ handler = "kiro"
  /\ \E o \in Outcomes(UsageBodies) :
       /\ fetchOutcome' = o
       /\ IF getUsageLimits(o).err # NoErr /\ Len(calls) < 3
            THEN pc' = "fetchStart" /\ UNCHANGED response
            ELSE Reply(KiroReply(getUsageLimits(o)))
  /\ UNCHANGED <<outside, inputs, storeCalls, accessToken, profileArn, ctxDeadline, cancelled,
                 cancelAt, now, callStart, calls, discOutcome>>

getUsageLimitsReturn ==
  /\ pc = "fetch"
  /\ handler = "kiro"
  /\ \E o \in Outcomes(UsageBodies) :
       /\ fetchOutcome' = o
       /\ Reply(KiroReply(getUsageLimits(o)))
  /\ UNCHANGED <<outside, inputs, storeCalls, accessToken, profileArn, ctxDeadline, cancelled,
                 cancelAt, now, callStart, calls, discOutcome>>

\* kAuth.GetUsageLimits(ctx, tokenData) of package kiroauth: the Fetch and
\* Normalize steps of the discovery-then-fetch adapter, one usage call under ctx.
KiroAuthGetUsageLimits(o) ==
  LET r == getUsageLimits(o)
  IN [usage |-> IF r.err = NoErr THEN KiroResponse(r.usage) ELSE NoUsage, err |-> r.err]

KiroAuthGetUsageLimitsStart ==
  /\ pc = "fetchStart"
  /\ handler = "kiro2"
  /\ calls' = Append(calls, [target |-> targetGetUsage, token |-> accessToken,
                             arn |-> profileArn, payload |-> UsagePayload(profileArn),
                             ctx |-> TRUE, start |-> now])
  /\ callStart' = now
  /\ pc' = "fetch"
  /\ UNCHANGED <<outside, inputs, storeCalls, accessToken, profileArn, ctxDeadline, cancelled,
                 cancelAt, now, discOutcome, fetchOutcome, response>>

\* usage, err := kAuth.GetUsageLimits(ctx, tokenData): 500 on error, else usage
Kiro2Reply(r) == IF r.err # NoErr THEN FetchFailedJSON(r.err) ELSE OkJSON(r.usage)

KiroAuthGetUsageLimitsReturn ==
  /\ pc = "fetch"
  /\ handler = "kiro2"
  /\ \E o \in Outcomes(UsageBodies) :
       /\ fetchOutcome' = o
       /\ Reply(Kiro2Reply(KiroAuthGetUsageLimits(o)))
  /\ UNCHANGED <<outside, inputs, storeCalls, accessToken, profileArn, ctxDeadline, cancelled,
                 cancelAt, now, callStart, calls, discOutcome>>

fetchCopilotUsageStart ==
  /\ pc = "fetchStart"
  /\ handler = "copilot"
  /\ calls' = Append(calls, [target |-> copilotUserEndpoint, token |-> accessToken,
                             arn |-> "", payload |-> {}, ctx |-> FALSE, start |-> now])
  /\ callStart' = now
  /\ pc' = "fetch"
  /\ UNCHANGED <<outside, inputs, storeCalls, accessToken, profileArn, ctxDeadline, cancelled,
                 cancelAt, now, discOutcome, fetchOutcome, response>>

\* usage, err := fetchCopilotUsage(token): 500 on error, else usage as it is
CopilotReply(r) == IF r.err # NoErr THEN FetchFailedJSON(r.err) ELSE OkJSON(r.usage)

fetchCopilotUsageReturn ==
  /\ pc = "fetch"
  /\ handler = "copilot"
  /\ \E o \in Outcomes(CopilotBodies) :
       /\ fetchOutcome' = o
       /\ Reply(CopilotReply(fetchCopilotUsage(o)))
  /\ UNCHANGED <<outside, inputs, storeCalls, accessToken, profileArn, ctxDeadline, cancelled,
                 cancelAt, now, callStart, calls, discOutcome>>

\* ------------------------------------------------------------ environment
\* time passes while a call is in flight
Tick ==
  /\ pc \in {"discovery", "fetch"}
  /\ ~MustFail
  /\ now' = Min(now + TickStep, CallLimit)
  /\ UNCHANGED <<outside, inputs, pc, storeCalls, accessToken, profileArn, ctxDeadline, cancelled,
                 cancelAt, callStart, calls, discOutcome, fetchOutcome, response>>

\* the client of the inbound request goes away
Cancel ==
  /\ ~cancelled
  /\ pc # "done"
  /\ cancelled' = TRUE
  /\ cancelAt' = pc
  /\ UNCHANGED <<outside, inputs, pc, storeCalls, accessToken, profileArn, ctxDeadline, now,
                 callStart, calls, discOutcome, fetchOutcome, response>>

Next ==
  \/ CheckAuthID
  \/ CheckAuthManager
  \/ LookupAuth
  \/ ExtractKiro
  \/ ExtractKiro2
  \/ ExtractCopilot
  \/ listProfilesStart
  \/ listProfilesReturn
  \/ getUsageLimitsStart
  \/ getUsageLimitsReturn
  \/ KiroAuthGetUsageLimitsStart
  \/ KiroAuthGetUsageLimitsReturn
  \/ fetchCopilotUsageStart
  \/ fetchCopilotUsageReturn
  \/ Tick
  \/ Cancel

Spec == Init /\ [][Next]_vars

\* A handler runs to its end: every step of it is taken once it can be, and a
\* call in flight comes back (with an answer, or with the error of the timeout).
HandlerStep ==
  \/ CheckAuthID
  \/ CheckAuthManager
  \/ LookupAuth
  \/ ExtractKiro
  \/ ExtractKiro2
  \/ ExtractCopilot
  \/ listProfilesStart
  \/ listProfilesReturn
  \/ getUsageLimitsStart
  \/ getUsageLimitsReturn
  \/ KiroAuthGetUsageLimitsStart
  \/ KiroAuthGetUsageLimitsReturn
  \/ fetchCopilotUsageStart
  \/ fetchCopilotUsageReturn

FairSpec == Spec /\ WF_vars(HandlerStep)

TypeOK ==
  /\ pc \in {"start", "manager", "lookup", "extract", "adapter", "discovery",
             "fetchStart", "fetch", "done"}
  /\ storeCalls \in 0..1
  /\ now >= 0
  /\ callStart <= now

\* ------------------------------------------------------- registry reads
\* names a caller may ask for: the channels of the switch and some others
UnknownChannels == {<<"k", "i", "r", "o">>, <<>>, <<"c", "l", "a", "u", " ", "d", "e">>}
KnownChannels ==
  {claude, gemini, vertex, geminiCli, aistudio, codex, qwen, iflow, antigravity}
ChannelBases == KnownChannels \cup UnknownChannels

\* spellings of one name: other letter case, surrounding white space
Capitalised(str) == IF str = <<>> THEN str ELSE <<ToUpperChar(Head(str))>> \o Tail(str)
Spellings(base) ==
  {base, Capitalised(base), <<" ">> \o ToUpper(base) \o <<"\t", "\n">>}

\* no request is being served
QuotaIdle ==
  /\ parked = NoRequest
  /\ handler = "kiro"
  /\ authID = ""
  /\ authManager = "nil"
  /\ store = [ok |-> FALSE, auth |-> Nil]
  /\ pc = "start"
  /\ storeCalls = 0
  /\ accessToken = ""
  /\ profileArn = ""
  /\ ctxDeadline = -1
  /\ cancelled = FALSE
  /\ cancelAt = "none"
  /\ now = 0
  /\ callStart = 0
  /\ calls = <<>>
  /\ discOutcome = NoOutcome
  /\ fetchOutcome = NoOutcome
  /\ response = NoResponse

RegInit ==
  /\ cfg \in AntigravityConfigs
  /\ regPrev = NoRead
  /\ regLast = NoRead
  /\ lookLast = NoLookup
  /\ table = NoTable
  /\ QuotaIdle

quota ==
  <<inputs, pc, storeCalls, accessToken, profileArn, ctxDeadline, cancelled, cancelAt, now,
    callStart, calls, discOutcome, fetchOutcome, response, parked>>

ReadsMade ==
  (IF regLast.read THEN 1 ELSE 0) + (IF regPrev.read THEN 1 ELSE 0)
    + (IF lookLast.read THEN 1 ELSE 0)

\* the visiting orders worth telling apart: the map is ranged over only for
\* the derived channel
RangeOrders(base) == IF base = antigravity THEN Orders(DOMAIN cfg) ELSE {<<>>}

\* one call of GetStaticModelDefinitionsByChannel(channel)
ReadChannel ==
  /\ ReadsMade < MaxReads
  /\ \E base \in ChannelBases :
       \E channel \in Spellings(base), order \in RangeOrders(base) :
         regLast' = [read |-> TRUE, base |-> base, channel |-> channel,
                     result |-> GetStaticModelDefinitionsByChannel(channel, cfg, order)]
  /\ regPrev' = regLast
  /\ UNCHANGED <<cfg, lookLast, table, quota>>

\* identifiers a caller may look up: the empty one, one that two scanned
\* tables define, ones of one scanned table, keys of the configuration map,
\* one of each table that has no channel in the switch, and an unknown one
LookupIDs ==
  {<<>>, <<"g", "1">>, <<"c", "1">>, <<"a">>, <<"A">>, <<"B">>,
   <<"g", "p", "t", "-", "4">>, <<"k", "i", "r", "o", "-", "a", "u", "t", "o">>,
   <<"a", "m", "a", "z", "o", "n", "q", "-", "a", "u", "t", "o">>, <<"z">>}

\* one call of LookupStaticModelInfo(modelID)
LookupModel ==
  /\ ReadsMade < MaxReads
  /\ \E modelID \in LookupIDs :
       lookLast' = [read |-> TRUE, id |-> modelID,
                    result |-> LookupStaticModelInfo(modelID, cfg)]
  /\ UNCHANGED <<cfg, regPrev, regLast, table, quota>>

RegNext == ReadChannel \/ LookupModel

RegSpec == RegInit /\ [][RegNext]_vars

\* ------------------------------------------------- construction of tables
GenInit ==
  /\ cfg = EmptyConfig
  /\ regPrev = NoRead
  /\ regLast = NoRead
  /\ lookLast = NoLookup
  /\ table = NoTable
  /\ QuotaIdle

\* one call of GetGitHubCopilotModels(), GetKiroModels() or GetAmazonQModels()
GetModels ==
  /\ ~table.built
  /\ \E t \in {[by |-> "GetGitHubCopilotModels", models |-> GetGitHubCopilotModels],
                [by |-> "GetKiroModels", models |-> GetKiroModels],
                [by |-> "GetAmazonQModels", models |-> GetAmazonQModels]} :
       table' = [built |-> TRUE, by |-> t.by, input |-> <<>>, models |-> t.models]
  /\ UNCHANGED <<cfg, regPrev, regLast, lookLast, quota>>

\* one run of the generator, a program of its own, on the provider's model list
Generate ==
  /\ ~table.built
  /\ \E models \in SeqsUpTo(CopilotModels, MaxGenerated) :
       table' = [built |-> TRUE, by |-> "generateGoCode", input |-> models,
                 models |-> generateGoCode(models)]
  /\ UNCHANGED <<cfg, regPrev, regLast, lookLast, quota>>

GenNext == GetModels \/ Generate

GenSpec == GenInit /\ [][GenNext]_vars

\* ------------------------------------------------- two requests at a time
\* The handlers keep everything in local variables; the scheduler switches
\* between two requests by saving the locals of one and restoring the other's.
Locals ==
  [handler |-> handler, authID |-> authID, pc |-> pc, storeCalls |-> storeCalls,
   accessToken |-> accessToken, profileArn |-> profileArn, ctxDeadline |-> ctxDeadline,
   cancelled |-> cancelled, cancelAt |-> cancelAt, now |-> now, callStart |-> callStart,
   calls |-> calls, discOutcome |-> discOutcome, fetchOutcome |-> fetchOutcome,
   response |-> response]

ResumeSharedResponse(p) ==
  /\ handler' = p.handler
  /\ authID' = p.authID
  /\ pc' = p.pc
  /\ storeCalls' = p.storeCalls
  /\ accessToken' = p.accessToken
  /\ profileArn' = p.profileArn
  /\ ctxDeadline' = p.ctxDeadline
  /\ cancelled' = p.cancelled
  /\ cancelAt' = p.cancelAt
  /\ now' = p.now
  /\ callStart' = p.callStart
  /\ calls' = p.calls
  /\ discOutcome' = p.discOutcome
  /\ fetchOutcome' = p.fetchOutcome
  /\ UNCHANGED response
Resume(p) ==
  /\ handler' = p.handler
  /\ authID' = p.authID
  /\ pc' = p.pc
  /\ storeCalls' = p.storeCalls
  /\ accessToken' = p.accessToken
  /\ profileArn' = p.profileArn
  /\ ctxDeadline' = p.ctxDeadline
  /\ cancelled' = p.cancelled
  /\ cancelAt' = p.cancelAt
  /\ now' = p.now
  /\ callStart' = p.callStart
  /\ calls' = p.calls
  /\ discOutcome' = p.discOutcome
  /\ fetchOutcome' = p.fetchOutcome
  /\ response' = p.response

\* the other request gets the processor
Switch ==
  /\ parked' = Locals
  /\ Resume(parked)
  /\ UNCHANGED <<registry, authManager, store>>

\* a credential of the discovery-then-fetch family with a token and no
\* secondary identifier, or no credential
ConcStores ==
  {[ok |-> TRUE,
    auth |-> [nil |-> FALSE, Provider |-> "kiro",
              Metadata |-> [access_token |-> Str("abc"), profile_arn |-> Absent,
                            accessToken |-> Absent, profileArn |-> Absent]]],
   [ok |-> FALSE, auth |-> Nil]}
ConcConfig ==
  [k \in {<<"a">>} |->
     [nil |-> FALSE, Thinking |-> BudgetThinking(1024, 32768), MaxCompletionTokens |-> 65535]]

ConcInit ==
  /\ cfg = ConcConfig
  /\ regPrev = NoRead
  /\ regLast = NoRead
  /\ lookLast = NoLookup
  /\ table = NoTable
  /\ authManager = "set"
  /\ store \in ConcStores
  /\ \E h \in Handlers, id \in AuthIDs :
       /\ handler = h
       /\ authID = id
  /\ pc = "start"
  /\ storeCalls = 0
  /\ accessToken = ""
  /\ profileArn = ""
  /\ ctxDeadline = -1
  /\ cancelled = FALSE
  /\ cancelAt = "none"
  /\ now = 0
  /\ callStart = 0
  /\ calls = <<>>
  /\ discOutcome = NoOutcome
  /\ fetchOutcome = NoOutcome
  /\ response = NoResponse
  /\ parked = StartOf("copilot", "acct-1")

\* a registry operation made while the requests are served
ConcRead ==
  /\ ~regLast.read
  /\ ReadChannel
  /\ regLast'.channel = antigravity
ConcLookup ==
  /\ ~lookLast.read
  /\ LookupModel
  /\ lookLast'.id = <<"a">>

ConcNext ==
  \/ CheckAuthID
  \/ CheckAuthManager
  \/ LookupAuth
  \/ ExtractKiro
  \/ ExtractKiro2
  \/ ExtractCopilot
  \/ listProfilesStart
  \/ listProfilesReturn
  \/ getUsageLimitsStart
  \/ getUsageLimitsReturn
  \/ KiroAuthGetUsageLimitsStart
  \/ KiroAuthGetUsageLimitsReturn
  \/ fetchCopilotUsageStart
  \/ fetchCopilotUsageReturn
  \/ Switch
  \/ ConcRead
  \/ ConcLookup

ConcSpec == ConcInit /\ [][ConcNext]_vars

\* ----------------------------------------------- vocabulary of the claims
Done == pc = "done"
Consulted == storeCalls > 0
Found == store.ok /\ ~store.auth.nil
Success == Done /\ response.code = 200
Failure == Done /\ response.code # 200

IsInvalidInput(r) == r.code = 400 /\ r.error = "auth_id is required"
IsNotFound(r) == r.code = 404 /\ r.error = "auth not found"
IsMissingCredentialField(r) ==
  /\ r.code = 400
  /\ r.error \in {"access_token not found in auth data", "no access token found in auth"}

CallsTo(t) == {i \in 1..Len(calls) : calls[i].target = t}
DiscoveryCalls == CallsTo("AmazonCodeWhispererService.ListProfiles")
FetchCalls ==
  CallsTo("AmazonCodeWhispererService.GetUsageLimits") \cup CallsTo("/copilot_internal/user")

\* the metadata holds no token: the key is absent, not a string or empty,
\* and no other key of the record carries one
NoUsableToken(md) ==
  /\ md.access_token.t # "string" \/ md.access_token.s = ""
  /\ md.accessToken.t = "absent"

\* the credential supplies a secondary identifier
SuppliedArn(md) == md.profile_arn.t = "string" /\ md.profile_arn.s # ""

Failed(o) == o.kind # "resp" \/ o.status # 200 \/ ~o.body.json
DiscoveryDone == discOutcome.kind # "none"
FetchDone == fetchOutcome.kind # "none"
TimedOut(o) == o.kind = "neterr" /\ o.cause = "timeout"

\* ----------------------------------------------------------------- claims
\* C1: an empty auth_id ends the resolution with InvalidInput; no outbound
\* call is made and the credential store is not consulted.
C1_EmptyAuthIDRejected ==
  authID = "" =>
    /\ calls = <<>>
    /\ storeCalls = 0
    /\ pc \in {"start", "done"}
    /\ Done => IsInvalidInput(response)

C1_Witness == authID = "" /\ Done /\ authManager = "set" /\ Found

\* C2: a credential that is found but whose metadata has no usable token
\* ends the resolution with MissingCredentialField, with no outbound call.
C2_MissingTokenRejected ==
  (Consulted /\ Found /\ NoUsableToken(store.auth.Metadata)) =>
    /\ pc \in {"extract", "done"}
    /\ calls = <<>>
    /\ Done => IsMissingCredentialField(response)

\* C3: a non-empty auth_id the store does not know ends with NotFound, which
\* is neither InvalidInput nor MissingCredentialField; no outbound call.
C3_NotFoundDistinct ==
  (authID # "" /\ Consulted /\ ~Found) =>
    /\ calls = <<>>
    /\ Done
    /\ IsNotFound(response)
    /\ ~IsInvalidInput(response)
    /\ ~IsMissingCredentialField(response)

C3_Witness == authID # "" /\ Consulted /\ ~store.ok /\ ~store.auth.nil /\ Done

\* C4: with no secondary identifier in the credential and a successful
\* ListProfiles answer with a non-empty list, GetUsageLimits is called with
\* the first identifier of the list.
C4_FirstProfileUsed ==
  (handler = "kiro" /\ DiscoveryDone /\ listProfiles(discOutcome).err = NoErr
     /\ Len(listProfiles(discOutcome).arns) > 0) =>
    \A i \in FetchCalls : calls[i].arn = Head(discOutcome.body.Profiles)

C4_Witness ==
  /\ handler = "kiro"
  /\ DiscoveryDone
  /\ discOutcome.kind = "resp"
  /\ discOutcome.status = 200
  /\ discOutcome.body.json
  /\ discOutcome.body.Profiles = <<"arn-1", "arn-2">>
  /\ FetchCalls # {}
  /\ \A i \in FetchCalls : calls[i].arn = "arn-1"

\* C5: when ListProfiles fails, GetUsageLimits is still called, without a
\* secondary identifier; the resolution can still succeed.
C5_DiscoveryFailureNotFatal ==
  (handler = "kiro" /\ DiscoveryDone /\ Failed(discOutcome)) =>
    \/ pc = "fetchStart" /\ ENABLED getUsageLimitsStart
    \/ /\ pc \in {"fetch", "done"}
       /\ Cardinality(FetchCalls) = 1
       /\ \A i \in FetchCalls : calls[i].arn = "" /\ "profileArn" \notin calls[i].payload

C5_Witness == handler = "kiro" /\ DiscoveryDone /\ Failed(discOutcome) /\ Success

\* C6: ListProfiles is called if and only if the credential has no
\* secondary identifier; a supplied one is used for the fetch as it is.
C6_DiscoveryOnlyWhenAbsent ==
  (handler = "kiro" /\ pc \in {"discovery", "fetchStart", "fetch", "done"} /\ Len(calls) > 0) =>
    /\ (DiscoveryCalls # {}) <=> ~SuppliedArn(store.auth.Metadata)
    /\ SuppliedArn(store.auth.Metadata) =>
         \A i \in FetchCalls : calls[i].arn = store.auth.Metadata.profile_arn.s

C6_Witness ==
  /\ handler = "kiro"
  /\ Done
  /\ Found
  /\ SuppliedArn(store.auth.Metadata)
  /\ Len(calls) = 1
  /\ calls[1].arn = "arn-0"

\* C7: a failed fetch call (transport failure, non-200 status, unparsable
\* body) always ends the resolution in Failure; Success needs a fetch call
\* that succeeded.
C7_FetchFailureFatal ==
  /\ (FetchDone /\ Failed(fetchOutcome)) => (Failure /\ response.error = "failed to fetch usage")
  /\ Success => (FetchDone /\ ~Failed(fetchOutcome))

C7_Witness ==
  /\ handler = "kiro"
  /\ FetchDone
  /\ fetchOutcome.kind = "resp"
  /\ fetchOutcome.status = 200
  /\ ~fetchOutcome.body.json
  /\ Failure

\* C8: at most one discovery call and one fetch call per resolution; once
\* the fetch call has come back nothing more is sent.
C8_NoRetry ==
  /\ Cardinality(DiscoveryCalls) <= 1
  /\ Cardinality(FetchCalls) <= 1
  /\ Len(calls) = Cardinality(DiscoveryCalls) + Cardinality(FetchCalls)
  /\ FetchDone => (Done /\ calls[Len(calls)].target # "AmazonCodeWhispererService.ListProfiles")
  /\ (DiscoveryDone /\ Len(calls) = 2) => calls[1].target # calls[2].target

C8_Witness == Failure /\ FetchDone /\ Failed(fetchOutcome) /\ Len(calls) = 2

\* C9: a call in flight never runs longer than 30 time units after its
\* start; a call that reaches the timeout fails, ends the resolution in
\* Failure and is not issued again.
C9_CallsBounded ==
  /\ pc \in {"discovery", "fetch"} => now - callStart <= 30
  /\ \A i \in 1..Len(calls) : now - calls[i].start <= 30 \/ i < Len(calls) \/ Done
  /\ (Done /\ (TimedOut(discOutcome) \/ TimedOut(fetchOutcome))) =>
       /\ Failure
       /\ Cardinality(DiscoveryCalls) <= 1
       /\ Cardinality(FetchCalls) <= 1

C9_Witness ==
  /\ handler = "copilot"
  /\ Failure
  /\ TimedOut(fetchOutcome)
  /\ now - callStart = 30

\* C10: cancelling the inbound request while an outbound call is in flight
\* abandons the call, and the resolution ends in Failure.
C10_CancelPropagates ==
  (Done /\ cancelAt \in {"discovery", "fetch"}) => Failure

\* C11: every resolution ends in exactly one terminal state, Success with a
\* snapshot or Failure with a reason, and takes no step after it.
Terminal ==
  /\ Done
  /\ \/ response.code = 200 /\ response.error = ""
     \/ response.code \in {400, 404, 500} /\ response.error # ""

C11_ReachesOneTerminalState ==
  /\ <>[]Terminal
  /\ [][pc # "done"]_vars
  /\ [](response.code # 0 => Done)

C11_Witness == Terminal /\ Len(calls) = 2 /\ response.code = 200

\* what the provider answered to the usage call, when it answered 200 with JSON
FetchAnswered == FetchDone /\ fetchOutcome.kind = "resp" /\ fetchOutcome.status = 200
                   /\ fetchOutcome.body.json

\* C12: when the usage answer lists categories, current usage and limit of
\* the snapshot are those of the first entry; later entries do not count.
C12_FirstCategoryOnly ==
  (handler = "kiro" /\ Done /\ FetchAnswered
     /\ Len(fetchOutcome.body.UsageBreakdownList) >= 1) =>
    /\ Success
    /\ response.body.credit_usage =
         fetchOutcome.body.UsageBreakdownList[1].CurrentUsageWithPrecision
    /\ response.body.monthly_credit_limit =
         fetchOutcome.body.UsageBreakdownList[1].UsageLimitWithPrecision

C12_Witness ==
  /\ handler = "kiro"
  /\ Done
  /\ FetchAnswered
  /\ Len(fetchOutcome.body.UsageBreakdownList) = 2
  /\ fetchOutcome.body.UsageBreakdownList[2].CurrentUsageWithPrecision = -10
  /\ response.body.credit_usage = 125
  /\ response.body.monthly_credit_limit = 500

\* C13: a successful usage answer without a usage breakdown still gives
\* Success, with current usage and limit both zero.
C13_NoBreakdownGivesZero ==
  (handler = "kiro" /\ Done /\ FetchAnswered
     /\ Len(fetchOutcome.body.UsageBreakdownList) = 0) =>
    /\ Success
    /\ response.body.credit_usage = 0
    /\ response.body.monthly_credit_limit = 0

C13_Witness ==
  /\ handler = "kiro"
  /\ Success
  /\ FetchAnswered
  /\ fetchOutcome.body.UsageBreakdownList = <<>>
  /\ response.body.credit_usage = 0

\* C14: the adapter is selected by the provider type recorded in the
\* credential: a call of the discovery-then-fetch adapter is made only for a
\* credential of that family, a call of the direct-fetch adapter only for one
\* of its family.
C14_AdapterMatchesProvider ==
  \A i \in 1..Len(calls) :
    /\ calls[i].target \in {"AmazonCodeWhispererService.ListProfiles",
                            "AmazonCodeWhispererService.GetUsageLimits"}
         => store.auth.Provider = "kiro"
    /\ calls[i].target = "/copilot_internal/user" => store.auth.Provider = "github-copilot"

\* C15: in the direct-fetch adapter an answer whose status is not 200 gives
\* a failure that carries the status code and the raw body, and the body is
\* not parsed into a usage result.
C15_RejectedCarriesStatusAndBody ==
  (handler = "copilot" /\ FetchDone /\ fetchOutcome.kind = "resp"
     /\ fetchOutcome.status # 200) =>
    /\ Failure
    /\ response.error = "failed to fetch usage"
    /\ response.detail.op = "API returned status"
    /\ response.detail.status = fetchOutcome.status
    /\ response.detail.body = fetchOutcome.body
    /\ response.body = [SubscriptionTitle |-> "", UsageBreakdownList |-> <<>>]

C15_Witness ==
  /\ handler = "copilot"
  /\ Failure
  /\ fetchOutcome.kind = "resp"
  /\ fetchOutcome.status = 429
  /\ fetchOutcome.body.json
  /\ response.detail.status = 429

\* the kind of failure a response tells its reader, by its message
UpstreamUnavailable(r) ==
  r.code = 500 /\ r.detail.op \in {"request failed", "failed to read response"}
UpstreamRejected(r) == r.code = 500 /\ r.detail.op \in {"API error", "API returned status"}
MalformedUpstreamResponse(r) ==
  r.code = 500 /\ r.detail.op \in {"failed to parse usage response", "failed to parse response"}

\* C16: a transport failure, a non-200 status and an unparsable body each
\* surface as their own kind of failure; an unparsable body with status 200
\* gives the parse failure, not Success and not UpstreamRejected.
C16_FailureKindsDistinct ==
  FetchDone =>
    /\ Done
    /\ fetchOutcome.kind # "resp" <=> UpstreamUnavailable(response)
    /\ (fetchOutcome.kind = "resp" /\ fetchOutcome.status # 200) <=> UpstreamRejected(response)
    /\ (fetchOutcome.kind = "resp" /\ fetchOutcome.status = 200 /\ ~fetchOutcome.body.json)
         <=> MalformedUpstreamResponse(response)
    /\ ~(UpstreamUnavailable(response) /\ UpstreamRejected(response))
    /\ ~(UpstreamUnavailable(response) /\ MalformedUpstreamResponse(response))
    /\ ~(UpstreamRejected(response) /\ MalformedUpstreamResponse(response))
    /\ MalformedUpstreamResponse(response) => ~Success

C16_Witness ==
  /\ FetchDone
  /\ fetchOutcome.kind = "resp"
  /\ fetchOutcome.status = 200
  /\ ~fetchOutcome.body.json
  /\ MalformedUpstreamResponse(response)
  /\ handler = "copilot"

\* the identifiers of a returned sequence, in order
IDs(models) == [i \in 1..Len(models) |-> models[i].ID]
DerivedRead(r) == r.read /\ r.base = antigravity

\* C17: a channel key that is not a channel of the registry gets an empty
\* sequence (the nil slice), whatever its spelling.
C17_UnknownChannelEmpty ==
  (regLast.read /\ regLast.base \notin KnownChannels) =>
    /\ regLast.result.models = <<>>
    /\ regLast.result.isNil

C17_Witness ==
  /\ regLast.read
  /\ regLast.base = <<"c", "l", "a", "u", " ", "d", "e">>
  /\ regLast.channel # regLast.base
  /\ regLast.result.models = <<>>
  /\ regPrev.read
  /\ regPrev.result.models # <<>>

\* C18: two keys that differ only in letter case or in surrounding white
\* space get the same sequence of descriptors.
C18_SpellingIrrelevant ==
  (regPrev.read /\ regLast.read /\ regPrev.base = regLast.base) =>
    regPrev.result.models = regLast.result.models

\* C19: the derived channel's sequence is in non-decreasing order of
\* lower-cased identifier, has no empty identifier, no entry for a key with a
\* null override, and exactly one entry for every other key of the map.
C19_DerivedSortedAndFiltered ==
  DerivedRead(regLast) =>
    LET ms == regLast.result.models
        kept == {k \in DOMAIN cfg : k # <<>> /\ cfg[k] # [nil |-> TRUE]}
    IN /\ \A i \in 1..(Len(ms) - 1) : ~StrLess(ToLower(ms[i + 1].ID), ToLower(ms[i].ID))
       /\ \A i \in 1..Len(ms) : ms[i].ID # <<>>
       /\ {ms[i].ID : i \in 1..Len(ms)} = kept
       /\ Len(ms) = Cardinality(kept)

C19_Witness ==
  /\ DerivedRead(regLast)
  /\ DOMAIN cfg = {<<>>, <<"a">>, <<"B">>}
  /\ IDs(regLast.result.models) = <<<<"a">>, <<"B">>>>

\* C20: for one configuration map every read of the derived channel returns
\* the same identifiers in the same order.
C20_DerivedDeterministic ==
  (DerivedRead(regPrev) /\ DerivedRead(regLast)) =>
    IDs(regPrev.result.models) = IDs(regLast.result.models)

\* the array-based tables in the order the registry scans them
ScanOrder ==
  <<GetClaudeModels, GetGeminiModels, GetGeminiVertexModels, GetGeminiCLIModels,
    GetAIStudioModels, GetOpenAIModels, GetQwenModels, GetIFlowModels>>
Defines(models, id) == \E i \in 1..Len(models) : models[i].ID = id
DefinedBy(models, id) == {models[i] : i \in {j \in 1..Len(models) : models[j].ID = id}}
InArrayTable(id) == \E t \in 1..Len(ScanOrder) : Defines(ScanOrder[t], id)
Looked(id) == lookLast.read /\ lookLast.id = id
HasOverride(id) == id \in DOMAIN cfg /\ cfg[id] # [nil |-> TRUE]

\* C21: a lookup of the empty identifier returns not-found, whatever the
\* tables and the configuration map hold.
C21_EmptyIDNotFound == Looked(<<>>) => lookLast.result.nil

C21_Witness == Looked(<<>>) /\ HasOverride(<<>>) /\ lookLast.result.nil

\* C22: an identifier that two scanned tables define is resolved to the
\* descriptor of the table that comes first in the scan order.
C22_FirstMatchStable ==
  lookLast.read =>
    \A t \in 1..Len(ScanOrder) :
      ( /\ Defines(ScanOrder[t], lookLast.id)
        /\ \A u \in 1..(t - 1) : ~Defines(ScanOrder[u], lookLast.id)
        /\ \E u \in (t + 1)..Len(ScanOrder) : Defines(ScanOrder[u], lookLast.id) )
      => /\ ~lookLast.result.nil
         /\ lookLast.result.info \in DefinedBy(ScanOrder[t], lookLast.id)

C22_Witness ==
  /\ Looked(<<"g", "1">>)
  /\ ~lookLast.result.nil
  /\ lookLast.result.info.Type = "gemini"
  /\ Defines(GetGeminiVertexModels, <<"g", "1">>)

\* C23: every identifier defined in any table of the registry, the ones of
\* GitHub Copilot, Kiro and Amazon Q included, is found by a lookup.
C23_EveryTableScanned ==
  ( /\ lookLast.read
    /\ \/ InArrayTable(lookLast.id)
       \/ Defines(GetGitHubCopilotModels, lookLast.id)
       \/ Defines(GetKiroModels, lookLast.id)
       \/ Defines(GetAmazonQModels, lookLast.id) )
  => /\ ~lookLast.result.nil
     /\ lookLast.result.info.ID = lookLast.id

C30_ListingAndLookupAgree ==
  (DerivedRead(regLast) /\ lookLast.read /\ ~InArrayTable(lookLast.id)) =>
    \A i \in 1..Len(regLast.result.models) :
      regLast.result.models[i].ID = lookLast.id =>
        /\ ~lookLast.result.nil
        /\ lookLast.result.info = regLast.result.models[i]

\* reasoning-support shapes of a descriptor
HasBudget(t) == ~t.nil /\ (t.Min # 0 \/ t.Max # 0)
HasLevels(t) == ~t.nil /\ Len(t.Levels) > 0

\* C25: no two descriptors of one table have the same id.
C25_IDsUniquePerTable ==
  table.built =>
    \A i, j \in 1..Len(table.models) :
      table.models[i].ID = table.models[j].ID => i = j

\* C26: no descriptor of a table, written by hand or by the generator,
\* carries both a numeric budget range and named effort levels.
C26_AtMostOneShape ==
  table.built =>
    \A i \in 1..Len(table.models) :
      ~(HasBudget(table.models[i].Thinking) /\ HasLevels(table.models[i].Thinking))

C26_Witness ==
  /\ table.by = "generateGoCode"
  /\ \E i \in 1..Len(table.input) :
       /\ table.input[i].ID = <<"g", "p", "t", "-", "4">>
       /\ table.input[i].MaxThinkingBudget > 0
  /\ \E i, j \in 1..Len(table.models) :
       /\ HasBudget(table.models[i].Thinking)
       /\ table.models[i].ID = <<"g", "p", "t", "-", "4">>
       /\ HasLevels(table.models[j].Thinking)

\* C28: in every successful resolution the usage and the limit reported are
\* not negative, whatever the provider answered.
C28_AmountsNonNegative ==
  (Success /\ handler = "kiro") =>
    /\ response.body.credit_usage >= 0
    /\ response.body.monthly_credit_limit >= 0

\* C29: every outbound call carries a non-empty bearer token of a credential
\* that was found, in all three handlers.
C29_NoCallWithoutToken ==
  \A i \in 1..Len(calls) :
    /\ Found
    /\ calls[i].token # ""

\* what a request answers when it is served alone: a function of its own
\* inputs, of the store's answer and of what its usage call came back with
SoloEarly(r) ==
  LET md == store.auth.Metadata
      td == DecodeKiroTokenData(md)
  IN IF r.authID = "" THEN ErrorJSON(400, "auth_id is required")
     ELSE IF authManager = "nil" THEN ErrorJSON(500, "auth manager not available")
     ELSE IF ~store.ok \/ store.auth.nil THEN ErrorJSON(404, "auth not found")
     ELSE IF r.handler = "kiro2" /\ td.err
       THEN ErrorJSON(500, "failed to unmarshal token data")
     ELSE IF r.handler = "copilot" THEN ErrorJSON(400, "no access token found in auth")
     ELSE ErrorJSON(400, "access_token not found in auth data")
SoloOutcome(r) ==
  IF r.fetchOutcome = [kind |-> "none"] THEN SoloEarly(r)
  ELSE IF r.handler = "kiro" THEN KiroReply(getUsageLimits(r.fetchOutcome))
  ELSE IF r.handler = "kiro2" THEN Kiro2Reply(KiroAuthGetUsageLimits(r.fetchOutcome))
  ELSE CopilotReply(fetchCopilotUsage(r.fetchOutcome))

\* C27: with two requests and registry operations interleaved in any way, no
\* step changes the state the requests share, and each request ends with the
\* answer it would give alone for the same store answer and the same
\* provider answers.
C27_ResolutionsIndependent ==
  /\ [](\A r \in {Locals, parked} : r.pc = "done" => r.response = SoloOutcome(r))
  /\ [][authManager' = authManager /\ store' = store /\ cfg' = cfg]_vars

C27_Witness ==
  /\ Done
  /\ handler = "kiro"
  /\ response.code = 200
  /\ Len(calls) = 2
  /\ parked.pc = "done"
  /\ parked.handler = "copilot"
  /\ parked.response.code = 500
  /\ Len(parked.calls) = 1
  /\ regLast.read
  /\ lookLast.read

====
